---------------------------- MODULE Spec2Model ----------------------------
(***************************************************************************)
(* A model of pyinkscape's field core: the text-presence classifier        *)
(* (has_text), the candidate reducer (used_elements / used_element), the   *)
(* leaf resolver (get_leaf) of pyinkscape/xmlnav.py and the Canvas field   *)
(* API (getElementById, getLeavesById, getField, setField) of              *)
(* pyinkscape/inkscape.py.                                                 *)
(*                                                                         *)
(* A document is an ordered tree.  Elements are numbered 1..n in document  *)
(* (pre-)order, so element 1 is the root and the children of an element,   *)
(* taken by increasing number, are in document order.                      *)
(*                                                                         *)
(* A Python str is a sequence of one-character strings.  A namespace URI   *)
(* is abbreviated to one character: "S" is http://www.w3.org/2000/svg and  *)
(* "I" is http://www.inkscape.org/namespaces/inkscape, so the qualified    *)
(* tag {http://www.w3.org/2000/svg}tspan is <<"{","S","}","t","s",...>>.   *)
(* An optional str (Element.text, Element.tail, the id attribute) is the   *)
(* empty tuple for None and the one-tuple <<s>> for the str s.             *)
(***************************************************************************)
EXTENDS Integers, Sequences, FiniteSets, TLC

VARIABLES
    parent,     \* parent[n]: the parent of element n, 0 for the root
    tag,        \* tag[n]: Element.tag, the raw (possibly qualified) tag
    ident,      \* ident[n]: the id attribute, optional
    text,       \* text[n]: Element.text, optional
    tail,       \* tail[n]: Element.tail, optional
    op,         \* the last call made: its name and its arguments
    ret,        \* what the last call returned or raised
    assigned,   \* the `leaf.text = ...` statements the last call executed
    log,        \* the warnings the last call reported
    lxml,       \* _LXML_AVAILABLE: whether lxml or xml.etree answers queries
    label,      \* label[n]: the inkscape:label attribute, optional
    groupmode,  \* groupmode[n]: the inkscape:groupmode attribute, optional
    elem_group_map, \* Canvas.__elem_group_map: element -> its Group object
    made,       \* made[g]: the element Group object g was constructed for
    given,      \* the <<element, Group object>> pairs the calls have returned
    id_seed,    \* IDGenerator.__id_seed
    id_check_hook,  \* IDGenerator.__id_check_hook: None or the ids it rejects
    lock,       \* IDGenerator.__lock: the thread that holds it, or NoThread
    pc,         \* pc[t]: where thread t is in IDGenerator.__next__
    valid_id,   \* valid_id[t]: the local variable of thread t's call
    calls       \* the calls of __next__ in order of lock acquisition

docvars == <<parent, tag, ident, text, tail, label, groupmode>>

\* the Group cache of the Canvas and the record of what it has handed out
groupvars == <<elem_group_map, made, given>>

\* the process-wide IDGenerator and the threads that call it
idvars == <<id_seed, id_check_hook, lock, pc, valid_id, calls>>

vars == <<docvars, op, ret, assigned, log, lxml, groupvars, idvars>>

-----------------------------------------------------------------------------
(* Python values *)

None == <<>>

Some(s) == <<s>>

\* what a call hands back: a value, or the exception it raised
Return(v) == [exc |-> "none", val |-> v]

Raise(e) == [exc |-> e, val |-> 0]

NoCall == [exc |-> "none", val |-> 0]

\* an Element is denoted by its number; 0 denotes None where an Element
\* or None is returned
NoElement == 0

-----------------------------------------------------------------------------
(* str *)

Whitespace == {" ", "\n", "\t"}

RECURSIVE lstrip(_)
lstrip(s) ==
    IF s # <<>> /\ Head(s) \in Whitespace THEN lstrip(Tail(s)) ELSE s

RECURSIVE rstrip(_)
rstrip(s) ==
    IF s # <<>> /\ s[Len(s)] \in Whitespace
    THEN rstrip(SubSeq(s, 1, Len(s) - 1))
    ELSE s

\* str.strip()
strip(s) == rstrip(lstrip(s))

LowerOf ==
    [c \in {"T", "S", "P", "A", "N", "G", "E", "X", "V"} |->
        CASE c = "T" -> "t" [] c = "S" -> "s" [] c = "P" -> "p"
          [] c = "A" -> "a" [] c = "N" -> "n" [] c = "G" -> "g"
          [] c = "E" -> "e" [] c = "X" -> "x" [] c = "V" -> "v"]

\* str.lower()
lower(s) ==
    [i \in 1..Len(s) |-> IF s[i] \in DOMAIN LowerOf THEN LowerOf[s[i]] ELSE s[i]]

\* whether pat occurs in s at position i
StartsAt(s, pat, i) ==
    /\ i + Len(pat) - 1 <= Len(s)
    /\ \A k \in 1..Len(pat) : s[i + k - 1] = pat[k]

\* str.replace(pat, ""): every non-overlapping occurrence, left to right
RECURSIVE remove(_, _)
remove(s, pat) ==
    IF s = <<>> \/ pat = <<>> THEN s
    ELSE IF StartsAt(s, pat, 1)
         THEN remove(SubSeq(s, Len(pat) + 1, Len(s)), pat)
         ELSE <<Head(s)>> \o remove(Tail(s), pat)

\* c in s
contains(s, c) == \E i \in 1..Len(s) : s[i] = c

Digit == [d \in 0..9 |->
    CASE d = 0 -> "0" [] d = 1 -> "1" [] d = 2 -> "2" [] d = 3 -> "3"
      [] d = 4 -> "4" [] d = 5 -> "5" [] d = 6 -> "6" [] d = 7 -> "7"
      [] d = 8 -> "8" [] d = 9 -> "9"]

RECURSIVE digits(_)
digits(n) == IF n < 10 THEN <<Digit[n]>> ELSE digits(n \div 10) \o <<Digit[n % 10]>>

\* str(value) for the values a field is set to: an int or a str
str(value) ==
    IF value.type = "int"
    THEN IF value.int < 0 THEN <<"-">> \o digits(0 - value.int)
         ELSE digits(value.int)
    ELSE value.str

\* the int n and the str s as values
Int_(n) == [type |-> "int", int |-> n, str |-> <<>>]

Str_(s) == [type |-> "str", int |-> 0, str |-> s]

-----------------------------------------------------------------------------
(* tags *)

SVG_NS == <<"S">>

INKSCAPE_NS == <<"I">>

qualified(ns, local) == <<"{">> \o ns \o <<"}">> \o local

tspan == <<"t", "s", "p", "a", "n">>

TSPAN == <<"T", "S", "P", "A", "N">>

-----------------------------------------------------------------------------
(* the tree API: a document d is a record of the five maps of the state *)

doc == [parent |-> parent, tag |-> tag, ident |-> ident, text |-> text,
        tail |-> tail]

Elements == DOMAIN parent

\* the ordered sequence 1, 2, ..., n
RECURSIVE upto(_)
upto(n) == IF n = 0 THEN <<>> ELSE upto(n - 1) \o <<n>>

\* iterating an Element: its children in document order
children(d, el) == SelectSeq(upto(Len(d.parent)), LAMBDA c : d.parent[c] = el)

RECURSIVE ancestors(_, _)
ancestors(par, n) ==
    IF n = 0 \/ par[n] = 0 THEN {} ELSE {par[n]} \cup ancestors(par, par[n])

\* the proper descendants of el
descendants(d, el) == {x \in DOMAIN d.parent : el \in ancestors(d.parent, x)}

\* the elements of a set in document order
RECURSIVE inorder(_)
inorder(S) ==
    IF S = {} THEN <<>>
    ELSE LET m == CHOOSE x \in S : \A y \in S : x <= y
         IN <<m>> \o inorder(S \ {m})

\* the numbering is a pre-order: each element's parent is the previous
\* element or one of its ancestors
IsPreorder(par) ==
    /\ par[1] = 0
    /\ \A n \in DOMAIN par : n > 1 => par[n] \in {n - 1} \cup ancestors(par, n - 1)

\* a str that is neither None nor empty
truthy(s) == s # None /\ s[1] # <<>>

RECURSIVE itertext(_, _)
RECURSIVE itertext_children(_, _, _)
\* Element.itertext(): the element's text, then for each child its
\* fragments followed by its tail; empty and missing fragments are skipped
itertext(d, el) ==
    (IF truthy(d.text[el]) THEN <<d.text[el][1]>> ELSE <<>>)
        \o itertext_children(d, children(d, el), 1)

itertext_children(d, kids, i) ==
    IF i > Len(kids) THEN <<>>
    ELSE itertext(d, kids[i])
            \o (IF truthy(d.tail[kids[i]]) THEN <<d.tail[kids[i]][1]>> ELSE <<>>)
            \o itertext_children(d, kids, i + 1)

-----------------------------------------------------------------------------
(* pyinkscape/xmlnav.py *)

\* a plausible slip: the result of replace is dropped
clean_tag_str_unchanged(t, exclude) == t

clean_tag_str(t, exclude) == remove(t, exclude)

\* the default of clean_tag_str's exclude: "{" + SVG_NS + "}"
SVG_EXCLUDE == <<"{">> \o SVG_NS \o <<"}">>

\* a plausible slip: the loop over the fragments forgets to strip
has_text_unstripped(d, element, spacing, recursive) ==
    IF truthy(d.text[element]) /\ (spacing \/ strip(d.text[element][1]) # <<>>)
    THEN TRUE
    ELSE IF ~recursive THEN FALSE
    ELSE \E i \in DOMAIN itertext(d, element) : itertext(d, element)[i] # <<>>

has_text(d, element, spacing, recursive) ==
    IF truthy(d.text[element]) /\ (spacing \/ strip(d.text[element][1]) # <<>>)
    THEN TRUE
    ELSE IF ~recursive THEN FALSE
    ELSE \E i \in DOMAIN itertext(d, element) :
            LET t == itertext(d, element)[i]
            IN (spacing /\ t # <<>>) \/ strip(t) # <<>>

\* a list without its i-th item
without(list, i) == SubSeq(list, 1, i - 1) \o SubSeq(list, i + 1, Len(list))

\* a plausible slip: blank items are removed from the list while a loop
\* over it runs, so the item after a removed one is skipped
RECURSIVE removing_while_iterating(_, _, _, _)
removing_while_iterating(d, list, i, spacing) ==
    IF i > Len(list) THEN list
    ELSE IF has_text(d, list[i], spacing, TRUE)
    THEN removing_while_iterating(d, list, i + 1, spacing)
    ELSE removing_while_iterating(d, without(list, i), i + 1, spacing)

used_elements_removing(d, elements, spacing) ==
    removing_while_iterating(d, elements, 1, spacing)

\* a plausible slip: the text under an element is not looked at
used_elements_own_text(d, elements, spacing) ==
    SelectSeq(elements, LAMBDA elem : has_text(d, elem, spacing, FALSE))

\* the elements of a list that have text, in the order of the list
used_elements(d, elements, spacing) ==
    SelectSeq(elements, LAMBDA elem : has_text(d, elem, spacing, TRUE))

\* the warnings used_element reports
used_element_warnings(d, elements, spacing, get_any_if_one) ==
    IF get_any_if_one /\ Len(elements) = 1 THEN <<>>
    ELSE LET used == used_elements(d, elements, spacing)
         IN IF Len(used) = 0
            THEN IF get_any_if_one THEN <<"All blank, returning first">> ELSE <<>>
            ELSE IF Len(used) = 1 THEN <<>>
            ELSE <<"multiple non-blank, returning first">>

\* a plausible slip: the fallback to the first element is left out
used_element_no_fallback(d, elements, spacing, get_any_if_one) ==
    IF get_any_if_one /\ Len(elements) = 1 THEN Return(elements[1])
    ELSE LET used == used_elements(d, elements, spacing)
         IN IF Len(used) = 0 THEN Return(NoElement) ELSE Return(used[1])

\* a plausible slip: the last element with text is returned, not the first
used_element_last(d, elements, spacing, get_any_if_one) ==
    IF get_any_if_one /\ Len(elements) = 1 THEN Return(elements[1])
    ELSE LET used == used_elements(d, elements, spacing)
         IN IF Len(used) = 0
            THEN IF get_any_if_one
                 THEN IF Len(elements) = 0 THEN Raise("IndexError")
                      ELSE Return(elements[1])
                 ELSE Return(NoElement)
            ELSE Return(used[Len(used)])

used_element(d, elements, spacing, get_any_if_one) ==
    IF get_any_if_one /\ Len(elements) = 1 THEN Return(elements[1])
    ELSE LET used == used_elements(d, elements, spacing)
         IN IF Len(used) = 0
            THEN IF get_any_if_one
                 THEN IF Len(elements) = 0 THEN Raise("IndexError")
                      ELSE Return(elements[1])
                 ELSE Return(NoElement)
            ELSE Return(used[1])

\* the children whose raw tag equals the tag asked for, as given
child_tags(d, el, t) == SelectSeq(children(d, el), LAMBDA child : d.tag[child] = t)

\* what a caller may pass where an Element is expected
Element(n) == [kind |-> "Element", node |-> n]

NotAnElement == {[kind |-> k, node |-> 0] : k \in {"None", "list", "tuple", "str"}}

RECURSIVE _get_leaf(_, _, _, _, _, _)
RECURSIVE _get_leaf_children(_, _, _, _, _, _, _)
\* a plausible slip: the tag of the element is compared with itself
_get_leaf_any_tag(d, el, t, skip_empty, spacing, matching_ancestor) ==
    IF el.kind = "None" THEN Raise("ValueError")
    ELSE IF el.kind \in {"list", "tuple", "str"} THEN Raise("TypeError")
    ELSE
    LET el_tag == clean_tag_str(d.tag[el.node], SVG_EXCLUDE)
    IN  IF el_tag # <<>> /\ contains(el_tag, "{") THEN Raise("AssertionError")
        ELSE
        LET matched ==
                IF /\ el_tag # <<>>
                   /\ lower(el_tag) = lower(el_tag)
                   /\ \/ (~skip_empty /\ child_tags(d, el.node, t) = <<>>)
                      \/ has_text(d, el.node, spacing, FALSE)
                THEN el.node
                ELSE matching_ancestor
        IN  _get_leaf_children(d, children(d, el.node), 1, t, skip_empty,
                               spacing, matched)

\* returns the Element found (NoElement for None) or raises
_get_leaf(d, el, t, skip_empty, spacing, matching_ancestor) ==
    IF el.kind = "None" THEN Raise("ValueError")
    ELSE IF el.kind \in {"list", "tuple", "str"} THEN Raise("TypeError")
    ELSE
    LET el_tag == clean_tag_str(d.tag[el.node], SVG_EXCLUDE)
    IN  IF el_tag # <<>> /\ contains(el_tag, "{") THEN Raise("AssertionError")
        ELSE
        LET matched ==
                IF /\ el_tag # <<>>
                   /\ lower(el_tag) = lower(t)
                   /\ \/ (~skip_empty /\ child_tags(d, el.node, t) = <<>>)
                      \/ has_text(d, el.node, spacing, FALSE)
                THEN el.node
                ELSE matching_ancestor
        IN  _get_leaf_children(d, children(d, el.node), 1, t, skip_empty,
                               spacing, matched)

\* a plausible slip: the first match is returned, its children never searched
_get_leaf_children_first_match(d, kids, i, t, skip_empty, spacing, matching_ancestor) ==
    IF i > Len(kids) \/ matching_ancestor # NoElement
    THEN Return(matching_ancestor)
    ELSE LET result == _get_leaf(d, Element(kids[i]), t, skip_empty, spacing,
                                 matching_ancestor)
         IN IF result.exc # "none" \/ result.val # NoElement THEN result
            ELSE _get_leaf_children(d, kids, i + 1, t, skip_empty, spacing,
                                    matching_ancestor)

\* the loop over the children: the first result that is not None is returned,
\* and the remembered ancestor when every child returned None
_get_leaf_children(d, kids, i, t, skip_empty, spacing, matching_ancestor) ==
    IF i > Len(kids) THEN Return(matching_ancestor)
    ELSE LET result == _get_leaf(d, Element(kids[i]), t, skip_empty, spacing,
                                 matching_ancestor)
         IN IF result.exc # "none" \/ result.val # NoElement THEN result
            ELSE _get_leaf_children(d, kids, i + 1, t, skip_empty, spacing,
                                    matching_ancestor)

\* a plausible slip: no Element, no result, and no complaint
get_leaf_unchecked(d, el, t, skip_empty, spacing) ==
    IF el.kind # "Element" THEN Return(NoElement)
    ELSE _get_leaf(d, el, t, skip_empty, spacing, NoElement)

get_leaf(d, el, t, skip_empty, spacing) ==
    _get_leaf(d, el, t, skip_empty, spacing, NoElement)

-----------------------------------------------------------------------------
(* pyinkscape/inkscape.py: class Canvas *)

\* _xpath_query(".//*[@id='{id}']"): the elements under the root that carry
\* the id, in document order
query_id(d, id) ==
    inorder({n \in DOMAIN d.parent : n # 1 /\ d.ident[n] = Some(id)})

RECURSIVE flatten(_)
flatten(lists) ==
    IF lists = <<>> THEN <<>> ELSE Head(lists) \o flatten(Tail(lists))

\* the elements of a list, each once, in document order
nodeset(list) == inorder({list[i] : i \in DOMAIN list})

\* a plausible slip: the [@id='{id}'] predicate is left out of the query
tagged_with_id_any(d, t, id) ==
    inorder({n \in DOMAIN d.parent : n # 1 /\ d.tag[n] = qualified(SVG_NS, t)})

\* the elements under the root of the qualified tag t that carry the id
tagged_with_id(d, t, id) ==
    inorder({n \in DOMAIN d.parent :
                n # 1 /\ d.tag[n] = qualified(SVG_NS, t) /\ d.ident[n] = Some(id)})

\* _xpath_query(".//svg:{tag}[@id='{id}']/svg:{leaf_tag}"): the leaf_tag
\* children of the tag elements under the root that carry the id.  lxml
\* answers with a node set in document order, xml.etree parent by parent.
query_children(d, t, id, leaf_tag, with_lxml) ==
    LET parents == tagged_with_id(d, t, id)
        found == flatten([i \in DOMAIN parents |->
                    SelectSeq(children(d, parents[i]),
                              LAMBDA c : d.tag[c] = qualified(SVG_NS, leaf_tag))])
    IN  IF with_lxml THEN nodeset(found) ELSE found

\* _xpath_query(".//svg:g[@id='{id}']//svg:{leaf_tag}"): the leaf_tag
\* elements anywhere under a g element under the root that carries the id.
\* xml.etree lists an element once for each such g above it.
query_descendants(d, id, leaf_tag, with_lxml) ==
    LET groups == tagged_with_id(d, <<"g">>, id)
        found == flatten([i \in DOMAIN groups |->
                    inorder({n \in descendants(d, groups[i]) :
                                d.tag[n] = qualified(SVG_NS, leaf_tag)})])
    IN  IF with_lxml THEN nodeset(found) ELSE found

getElementById(d, id, skip_empty, assert_id_in) ==
    LET elems == query_id(d, id)
    IN  IF elems = <<>>
        THEN IF truthy(assert_id_in) THEN Raise("AssertionError")
             ELSE Return(NoElement)
        ELSE IF skip_empty THEN used_element(d, elems, FALSE, FALSE)
        ELSE Return(elems[1])

\* a plausible slip: skip_empty does not reach get_leaf
getLeafById_keeping_empty(d, t, id, skip_empty, spacing, assert_id_in) ==
    LET el == getElementById(d, id, skip_empty, None)
    IN  IF el.val = NoElement
        THEN IF truthy(assert_id_in) THEN Raise("AssertionError")
             ELSE Return(NoElement)
        ELSE get_leaf(d, Element(el.val), t, FALSE, spacing)

\* getElementById is called without assert_id_in and reports a missing id,
\* or an id whose elements were all skipped, by returning None
getLeafById(d, t, id, skip_empty, spacing, assert_id_in) ==
    LET el == getElementById(d, id, skip_empty, None)
    IN  IF el.val = NoElement
        THEN IF truthy(assert_id_in) THEN Raise("AssertionError")
             ELSE Return(NoElement)
        ELSE get_leaf(d, Element(el.val), t, skip_empty, spacing)

\* a plausible slip: the leaves found by the descent into g are not filtered
getLeavesById_descent_unfiltered(d, id, t, leaf_tag, skip_empty, spacing, with_lxml) ==
    LET direct == query_children(d, t, id, leaf_tag, with_lxml)
        under_g == query_descendants(d, id, leaf_tag, with_lxml)
    IN  IF direct # <<>>
        THEN [val |-> Some(IF skip_empty THEN used_elements(d, direct, spacing)
                           ELSE direct),
              log |-> <<>>]
        ELSE IF under_g # <<>>
        THEN [val |-> Some(under_g), log |-> <<"speculated">>]
        ELSE [val |-> None, log |-> <<"missing">>]

\* returns None or Some(the list of leaves), with the warnings logged
getLeavesById(d, id, t, leaf_tag, skip_empty, spacing, with_lxml) ==
    LET direct == query_children(d, t, id, leaf_tag, with_lxml)
        under_g == query_descendants(d, id, leaf_tag, with_lxml)
    IN  IF direct # <<>>
        THEN [val |-> Some(IF skip_empty THEN used_elements(d, direct, spacing)
                           ELSE direct),
              log |-> <<>>]
        ELSE IF under_g # <<>>
        THEN [val |-> Some(IF skip_empty THEN used_elements(d, under_g, spacing)
                           ELSE under_g),
              log |-> <<"speculated">>]
        ELSE [val |-> None, log |-> <<"missing">>]

\* returns the text of the leaf (None or Some(str)), or None
getField(d, id) ==
    LET el == getElementById(d, id, FALSE, None)
    IN  IF el.val = NoElement THEN Return(None)
        ELSE LET leaf == get_leaf(d, Element(el.val), tspan, FALSE, FALSE)
             IN IF leaf.exc # "none" THEN leaf
                ELSE IF leaf.val # NoElement THEN Return(d.text[leaf.val])
                ELSE Return(None)

\* the statement `leaf.text = s`: the text afterwards and the record of it
assign(st, leaf, s) ==
    [text |-> [st.text EXCEPT ![leaf] = Some(s)],
     assigned |-> Append(st.assigned, [el |-> leaf, text |-> s])]

RECURSIVE assign_leaves(_, _, _, _)
\* a plausible slip: new_value is erased before it is assigned
assign_leaves_erased_first(st, lvs, i, new_value) ==
    IF i > Len(lvs) THEN st
    ELSE assign_leaves(assign(st, lvs[i], <<>>), lvs, i + 1, <<>>)

\* `for leaf in leaves: leaf.text = new_value; new_value = ""`
assign_leaves(st, lvs, i, new_value) ==
    IF i > Len(lvs) THEN st
    ELSE assign_leaves(assign(st, lvs[i], new_value), lvs, i + 1, <<>>)

\* what setField does: what it returns or raises, the text of every element
\* afterwards, the assignments made in order and the warnings reported
setField(d, id, value, skip_empty, spacing, with_lxml) ==
    LET found == getLeavesById(d, id, <<"t", "e", "x", "t">>, tspan,
                               skip_empty, spacing, with_lxml)
        new_value == str(value)
        unset == [text |-> d.text, assigned |-> <<>>]
    IN  IF found.val = None
        THEN \* len(None)
             [ret |-> Raise("TypeError"), text |-> d.text, assigned |-> <<>>,
              log |-> found.log]
        ELSE IF Len(found.val[1]) > 0
        THEN LET st == assign_leaves(unset, found.val[1], 1, new_value)
             IN [ret |-> Return(TRUE), text |-> st.text,
                 assigned |-> st.assigned, log |-> found.log]
        ELSE
        LET el == getElementById(d, id, FALSE, None)
            leaf == IF el.val = NoElement THEN Return(NoElement)
                    ELSE get_leaf(d, Element(el.val), tspan, skip_empty, spacing)
        IN  IF leaf.exc # "none"
            THEN [ret |-> leaf, text |-> d.text, assigned |-> <<>>,
                  log |-> found.log]
            ELSE IF leaf.val # NoElement
            THEN LET st == assign(unset, leaf.val, new_value)
                 IN [ret |-> Return(TRUE), text |-> st.text,
                     assigned |-> st.assigned, log |-> found.log]
            ELSE [ret |-> Return(FALSE), text |-> d.text, assigned |-> <<>>,
                  log |-> found.log \o <<"does not contain id">>]

-----------------------------------------------------------------------------
(* documents *)

\* a document of at most N elements; kinds is the set of <<tag, id, text,
\* tail>> an element other than the root may carry, rootkinds what the root may
InitTree(N, rootkinds, kinds) ==
    \E n \in 1..N :
        /\ parent \in {par \in [1..n -> 0..(n - 1)] : IsPreorder(par)}
        /\ \E k \in [1..n -> kinds \cup rootkinds] :
              /\ k[1] \in rootkinds
              /\ \A e \in 2..n : k[e] \in kinds
              /\ tag = [e \in 1..n |-> k[e][1]]
              /\ ident = [e \in 1..n |-> k[e][2]]
              /\ text = [e \in 1..n |-> k[e][3]]
              /\ tail = [e \in 1..n |-> k[e][4]]

\* a document none of whose elements is labelled or marked as a layer
InitDoc(N, rootkinds, kinds) ==
    /\ InitTree(N, rootkinds, kinds)
    /\ label = [e \in DOMAIN parent |-> None]
    /\ groupmode = [e \in DOMAIN parent |-> None]

\* no call made yet
InitOp ==
    /\ op = [name |-> "init"]
    /\ ret = NoCall
    /\ assigned = <<>>
    /\ log = <<>>

\* Canvas.__init__: the Group cache is an empty dict
InitGroupMap ==
    /\ elem_group_map = <<>>
    /\ made = <<>>
    /\ given = {}

NumThreads == 2

Threads == 1..NumThreads

\* the lock when no thread holds it
NoThread == 0

\* IDGenerator.__init__(id_seed, id_hook), no thread inside __next__
IDGenerator(seed, hook) ==
    /\ id_seed = seed
    /\ id_check_hook = hook
    /\ lock = NoThread
    /\ pc = [t \in Threads |-> "idle"]
    /\ valid_id = [t \in Threads |-> 0]
    /\ calls = <<>>

\* the module is loaded (`__idgen = IDGenerator()`), a Canvas is
\* constructed and no call has been made
InitCall ==
    /\ InitOp
    /\ InitGroupMap
    /\ IDGenerator(1, None)

\* xmlnav.py asks no query: the library makes no difference to it
InitNav == InitCall /\ lxml = TRUE

-----------------------------------------------------------------------------
(* SpecLeaf: get_leaf on the root of any small tree *)

MaxLeafNodes == 4

\* elements of the tag asked for with no text, blank text or text; an element
\* of another tag; an element of another namespace.  get_leaf reads the text
\* of the elements of the tag asked for only.
LeafKinds ==
    {<<tspan, None, x, None>> : x \in {None, Some(<<" ">>), Some(<<"B">>)}}
        \cup {<<<<"g">>, None, None, None>>,
              <<qualified(INKSCAPE_NS, <<"x">>), None, None, None>>}

LeafRequests == {tspan, TSPAN}

InitLeaf == InitDoc(MaxLeafNodes, LeafKinds, LeafKinds) /\ InitNav

Call_get_leaf(el, t, skip_empty, spacing) ==
    /\ op' = [name |-> "get_leaf", el |-> el, tag |-> t,
              skip_empty |-> skip_empty, spacing |-> spacing]
    /\ ret' = get_leaf(doc, el, t, skip_empty, spacing)
    /\ UNCHANGED <<docvars, assigned, log, lxml, groupvars, idvars>>

\* get_leaf changes nothing, so one call per tree shows all it does
LeafCall ==
    /\ op.name = "init"
    /\ \E t \in LeafRequests, skip_empty \in BOOLEAN, spacing \in BOOLEAN :
          Call_get_leaf(Element(1), t, skip_empty, spacing)

NextLeaf == LeafCall

SpecLeaf == InitLeaf /\ [][NextLeaf]_vars

-----------------------------------------------------------------------------
(* what the claims about get_leaf speak of *)

\* the last call was get_leaf on an Element
LeafCalled == op.name = "get_leaf" /\ op.el.kind = "Element"

\* the last call returned an Element
Found == ret.exc = "none" /\ ret.val # NoElement

\* the element and the elements under it
subtree(d, el) == {el} \cup descendants(d, el)

\* the tag of n, namespace stripped, equals t whatever the letter case
TagMatches(d, n, t) == lower(clean_tag_str(d.tag[n], SVG_EXCLUDE)) = lower(t)

\* n is a candidate match: its tag matches and the skip_empty/own-text rule
\* accepts it
CandidateMatch(d, n, t, skip_empty, spacing) ==
    /\ TagMatches(d, n, t)
    /\ \/ (~skip_empty /\ child_tags(d, n, t) = <<>>)
       \/ has_text(d, n, spacing, FALSE)

\* C5: when get_leaf returns an element, no proper descendant of that element
\* is a candidate match (the most deeply nested match wins).
C5_MostDeeplyNestedWins ==
    (LeafCalled /\ Found) =>
        \A x \in descendants(doc, ret.val) :
            ~CandidateMatch(doc, x, op.tag, op.skip_empty, op.spacing)

\* the tag-matching elements of the subtree that have own text
WithOwnText(d, el, t, spacing) ==
    {n \in subtree(d, el) : TagMatches(d, n, t) /\ has_text(d, n, spacing, FALSE)}

\* C6: when exactly one element of the subtree matches the tag and has own
\* text, get_leaf with skip_empty=True returns that element.
C6_OnlyTextBearingMatch ==
    (LeafCalled /\ op.skip_empty) =>
        \A n \in WithOwnText(doc, op.el.node, op.tag, op.spacing) :
            WithOwnText(doc, op.el.node, op.tag, op.spacing) = {n}
                => ret = Return(n)

\* apart from elements of another namespace (see C8), C6 holds
NoOtherNamespace(d) ==
    \A n \in DOMAIN d.parent :
        ~contains(clean_tag_str(d.tag[n], SVG_EXCLUDE), "{")

C6_WithinSVGNamespace == NoOtherNamespace(doc) => C6_OnlyTextBearingMatch

\* C6 (the case happening): one text-bearing match below an empty match
C6_Witness ==
    /\ LeafCalled /\ op.skip_empty
    /\ \E n \in Elements : n > 1 /\ WithOwnText(doc, 1, op.tag, op.spacing) = {n}
    /\ Found

\* the tree under el is a chain: every element has at most one child
IsChain(d, el) == \A n \in subtree(d, el) : Len(children(d, n)) <= 1

\* the elements of d that have no child
leaves(d, el) == {n \in subtree(d, el) : children(d, n) = <<>>}

\* C7: for a chain of same-tag wrappers around a leaf with text, all matching
\* the tag asked for, get_leaf returns the innermost leaf, for both values of
\* skip_empty and of spacing.
C7_InnermostOfChain ==
    (/\ LeafCalled
     /\ IsChain(doc, op.el.node)
     /\ Cardinality(subtree(doc, op.el.node)) >= 3
     /\ \A n \in subtree(doc, op.el.node) : TagMatches(doc, n, op.tag)
     /\ \A n \in leaves(doc, op.el.node) : has_text(doc, n, op.spacing, FALSE))
        => \A n \in leaves(doc, op.el.node) : ret = Return(n)

C7_Witness ==
    /\ LeafCalled
    /\ IsChain(doc, 1)
    /\ Cardinality(Elements) = 3
    /\ \A n \in Elements : TagMatches(doc, n, op.tag)
    /\ text = <<None, None, Some(<<"B">>)>>
    /\ op.skip_empty
    /\ ret = Return(3)

-----------------------------------------------------------------------------
(* SpecTags: get_leaf on any element of a tree whose tags are bare, in the  *)
(* SVG namespace or in another namespace, asked for in any letter case      *)

MaxTagNodes == 3

TagKinds ==
    {<<t, None, x, None>> :
        t \in {tspan, qualified(SVG_NS, tspan)}, x \in {None, Some(<<"B">>)}}
        \cup {<<qualified(SVG_NS, <<"g">>), None, None, None>>,
              <<qualified(INKSCAPE_NS, <<"x">>), None, None, None>>}

TagRequests == {tspan, TSPAN, <<"T", "s", "p", "a", "n">>}

InitTags == InitDoc(MaxTagNodes, TagKinds, TagKinds) /\ InitNav

TagCall ==
    /\ op.name = "init"
    /\ \E n \in Elements, t \in TagRequests,
          skip_empty \in BOOLEAN, spacing \in BOOLEAN :
          Call_get_leaf(Element(n), t, skip_empty, spacing)

NextTags == TagCall

SpecTags == InitTags /\ [][NextTags]_vars

\* C8: when no element of the subtree matches the tag asked for, whatever the
\* tags (bare or qualified by any namespace), get_leaf returns None and raises
\* nothing.
C8_NotFoundIsNone ==
    (/\ LeafCalled
     /\ \A n \in subtree(doc, op.el.node) : ~TagMatches(doc, n, op.tag))
        => ret = Return(NoElement)

\* C10: an element whose raw tag is tspan qualified by the SVG namespace is
\* matched when TSPAN, or tspan in any other letter case, is asked for:
\* get_leaf on such an element that has no child returns the element,
\* provided the skip_empty rule accepts it.
C10_CaseAndNamespace ==
    (/\ LeafCalled
     /\ tag[op.el.node] = qualified(SVG_NS, tspan)
     /\ lower(op.tag) = tspan
     /\ children(doc, op.el.node) = <<>>
     /\ (~op.skip_empty \/ has_text(doc, op.el.node, op.spacing, FALSE)))
        => ret = Return(op.el.node)

C10_Witness ==
    /\ LeafCalled
    /\ tag[op.el.node] = qualified(SVG_NS, tspan)
    /\ op.tag = TSPAN
    /\ children(doc, op.el.node) = <<>>
    /\ ret = Return(op.el.node)

-----------------------------------------------------------------------------
(* SpecRoot: get_leaf given an Element or something that is not one *)

MaxRootNodes == 2

InitRoot == InitDoc(MaxRootNodes, LeafKinds, LeafKinds) /\ InitNav

RootCall ==
    /\ op.name = "init"
    /\ \E t \in LeafRequests, skip_empty \in BOOLEAN, spacing \in BOOLEAN :
          Call_get_leaf(Element(1), t, skip_empty, spacing)

BadRootCall ==
    /\ op.name = "init"
    /\ \E el \in NotAnElement, t \in LeafRequests,
          skip_empty \in BOOLEAN, spacing \in BOOLEAN :
          Call_get_leaf(el, t, skip_empty, spacing)

NextRoot == RootCall \/ BadRootCall

SpecRoot == InitRoot /\ [][NextRoot]_vars

\* C9: get_leaf raises ValueError when the root is None and TypeError when it
\* is a list, a tuple or a str; it returns no value for such a root.
C9_InvalidRootRaises ==
    (op.name = "get_leaf" /\ op.el.kind # "Element") =>
        ret = Raise(IF op.el.kind = "None" THEN "ValueError" ELSE "TypeError")

C9_Witness ==
    /\ op.name = "get_leaf"
    /\ op.el.kind = "list"
    /\ ret.exc = "TypeError"

-----------------------------------------------------------------------------
(* SpecField: setField and getField, in any order, on an SVG document *)

MaxFieldNodes == 4

FieldIds == {"f"}

svg(local) == qualified(SVG_NS, local)

FieldRootKinds == {<<svg(<<"s", "v", "g">>), None, None, None>>}

\* g and text elements with or without the id, tspan elements with no text,
\* blank text or text
FieldKinds ==
    {<<t, i, None, None>> :
        t \in {svg(<<"g">>), svg(<<"t", "e", "x", "t">>)},
        i \in {None} \cup {Some(f) : f \in FieldIds}}
        \cup {<<svg(tspan), None, x, None>> :
                x \in {None, Some(<<" ">>), Some(<<"B">>)}}

\* the nesting SVG allows: g in svg or g, text in svg or g, tspan in text or
\* tspan
IsSVG(d) ==
    \A n \in DOMAIN d.parent : n > 1 =>
        LET p == d.tag[d.parent[n]]
        IN  IF d.tag[n] = svg(tspan)
            THEN p \in {svg(<<"t", "e", "x", "t">>), svg(tspan)}
            ELSE p \in {svg(<<"s", "v", "g">>), svg(<<"g">>)}

FieldValues == {Int_(17)}

InitField ==
    /\ InitDoc(MaxFieldNodes, FieldRootKinds, FieldKinds)
    /\ IsSVG(doc)
    /\ InitCall
    /\ lxml \in BOOLEAN

Call_setField(id, value, skip_empty, spacing) ==
    LET r == setField(doc, id, value, skip_empty, spacing, lxml)
    IN  /\ op' = [name |-> "setField", id |-> id, value |-> value,
                  skip_empty |-> skip_empty, spacing |-> spacing,
                  before |-> text]
        /\ ret' = r.ret
        /\ text' = r.text
        /\ assigned' = r.assigned
        /\ log' = r.log
        /\ UNCHANGED <<parent, tag, ident, tail, label, groupmode, lxml, groupvars,
                     idvars>>

Call_getField(id) ==
    /\ op' = [name |-> "getField", id |-> id, before |-> text,
              prev |-> IF op.name = "setField"
                       THEN [name |-> op.name, id |-> op.id, value |-> op.value,
                             skip_empty |-> op.skip_empty,
                             spacing |-> op.spacing, ret |-> ret]
                       ELSE [name |-> op.name]]
    /\ ret' = getField(doc, id)
    /\ assigned' = <<>>
    /\ log' = <<>>
    /\ UNCHANGED <<docvars, lxml, groupvars, idvars>>

FieldSet ==
    \E id \in FieldIds, value \in FieldValues,
       skip_empty \in BOOLEAN, spacing \in BOOLEAN :
        Call_setField(id, value, skip_empty, spacing)

FieldGet == \E id \in FieldIds : Call_getField(id)

NextField == FieldSet \/ FieldGet

SpecField == InitField /\ [][NextField]_vars

-----------------------------------------------------------------------------
(* what the claims about setField and getField speak of *)

\* the call returned v
Returned(r, v) == r.exc = "none" /\ r.val = v

SetCalled == op.name = "setField"

\* the candidate list of the identifier: the tspan elements found for it
\* before any emptiness filtering
Candidates(d, id, with_lxml) ==
    LET direct == query_children(d, <<"t", "e", "x", "t">>, id, tspan, with_lxml)
    IN  IF direct # <<>> THEN direct
        ELSE query_descendants(d, id, tspan, with_lxml)

CandidateSet == {Candidates(doc, op.id, lxml)[i] :
                    i \in DOMAIN Candidates(doc, op.id, lxml)}

\* C1: when the candidate list of the identifier is not empty, after setField
\* one candidate has the text str(value) and every other candidate has the
\* empty string as its text, whatever skip_empty and spacing.
C1_WritePolicy ==
    (SetCalled /\ CandidateSet # {}) =>
        \E s \in CandidateSet :
            /\ text[s] = Some(str(op.value))
            /\ \A c \in CandidateSet \ {s} : text[c] = Some(<<>>)

\* C2: when setField(id, value) returned True, getField(id) called
\* immediately afterwards returns str(value).
C2_RoundTrip ==
    (/\ op.name = "getField"
     /\ op.prev.name = "setField"
     /\ op.prev.id = op.id
     /\ ~op.prev.skip_empty /\ ~op.prev.spacing
     /\ Returned(op.prev.ret, TRUE))
        => /\ ret.exc = "none"
           /\ ret.val = Some(str(op.prev.value))

\* C3: setField for an identifier that no element carries returns False with
\* a warning, raises nothing and leaves every text as it was.
C3_MissingIdReturnsFalse ==
    (SetCalled /\ query_id(doc, op.id) = <<>>) =>
        /\ Returned(ret, FALSE)
        /\ log # <<>>
        /\ text = op.before

\* C4: when setField returns True, the call assigned str(value) to the text of
\* at least one element; when it returns False, no text differs from what it
\* was before the call.
C4_ReturnTellsWhetherSet ==
    SetCalled =>
        /\ Returned(ret, TRUE) =>
              \E i \in DOMAIN assigned :
                  /\ assigned[i].text = str(op.value)
                  /\ assigned[i].el \in Elements
        /\ Returned(ret, FALSE) => text = op.before

\* C4 (the case happening): a call that returned True after more than one
\* assignment
C4_Witness ==
    /\ SetCalled
    /\ Returned(ret, TRUE)
    /\ Len(assigned) >= 2
    /\ text # op.before

\* a call that returned False
C4_WitnessFalse ==
    /\ SetCalled
    /\ Returned(ret, FALSE)

-----------------------------------------------------------------------------
(* SpecEquiv: get_leaf on a tree of bare lower-case tags and on the same    *)
(* tree with some tags qualified by the SVG namespace or in upper case       *)

MaxEquivNodes == 3

EquivKinds ==
    {<<tspan, None, x, None>> : x \in {None, Some(<<"B">>)}}
        \cup {<<<<"g">>, None, None, None>>}

\* str.upper on the letters of the tags in use
UpperOf(c) ==
    CASE c = "t" -> "T" [] c = "s" -> "S" [] c = "p" -> "P" [] c = "a" -> "A"
      [] c = "n" -> "N" [] c = "g" -> "G" [] OTHER -> c

upper(s) == [i \in DOMAIN s |-> UpperOf(s[i])]

\* the spellings of one tag: bare, qualified by the SVG namespace, upper case
Spellings(t) == {t, qualified(SVG_NS, t), upper(t)}

\* the tag maps that spell the tags of d element by element
Respelled(d) ==
    {tags \in [DOMAIN d.tag -> UNION {Spellings(d.tag[n]) : n \in DOMAIN d.tag}] :
        \A n \in DOMAIN d.tag : tags[n] \in Spellings(d.tag[n])}

InitEquiv == InitDoc(MaxEquivNodes, EquivKinds, EquivKinds) /\ InitNav

\* the same call on the tree and on a respelling of it
EquivCall ==
    /\ op.name = "init"
    /\ \E t \in LeafRequests, skip_empty \in BOOLEAN, spacing \in BOOLEAN,
          tags \in Respelled(doc) :
          /\ op' = [name |-> "get_leaf", el |-> Element(1), tag |-> t,
                    skip_empty |-> skip_empty, spacing |-> spacing,
                    respelled |-> tags,
                    ret_respelled |-> get_leaf([doc EXCEPT !.tag = tags],
                                               Element(1), t, skip_empty, spacing)]
          /\ ret' = get_leaf(doc, Element(1), t, skip_empty, spacing)
          /\ UNCHANGED <<docvars, assigned, log, lxml, groupvars, idvars>>

NextEquiv == EquivCall

SpecEquiv == InitEquiv /\ [][NextEquiv]_vars

\* C11: for two trees of the same shape and text whose tags differ only by
\* the SVG namespace wrapper or by letter case, get_leaf with the same tag,
\* skip_empty and spacing returns corresponding elements or None for both.
C11_QualifiedAndBareAgree ==
    LeafCalled => op.ret_respelled = ret

-----------------------------------------------------------------------------
(* SpecText: has_text on the elements of a tree whose elements have no     *)
(* text, empty, blank or non-blank text, and text after them (a tail) or   *)
(* not                                                                      *)

MaxTextNodes == 3

ThreeSpaces == <<" ", " ", " ">>

TextKinds ==
    {<<<<"g">>, None, x, None>> :
        x \in {None, Some(<<>>), Some(ThreeSpaces), Some(<<"B">>)}}
        \cup {<<<<"g">>, None, None, y>> : y \in {Some(<<" ">>), Some(<<"T">>)}}

InitText == InitDoc(MaxTextNodes, TextKinds, TextKinds) /\ InitNav

HasTextCall ==
    /\ op.name = "init"
    /\ \E n \in Elements, spacing \in BOOLEAN, recursive \in BOOLEAN :
          /\ op' = [name |-> "has_text", el |-> n, spacing |-> spacing,
                    recursive |-> recursive]
          /\ ret' = Return(has_text(doc, n, spacing, recursive))
          /\ UNCHANGED <<docvars, assigned, log, lxml, groupvars, idvars>>

NextText == HasTextCall

SpecText == InitText /\ [][NextText]_vars

\* a str of whitespace only (the empty str included)
IsBlank(s) == \A i \in DOMAIN s : s[i] \in Whitespace

\* the presence test of one optional fragment: present (neither None nor
\* empty) and, unless spacing counts, not whitespace only
Present(fragment, spacing) ==
    /\ fragment # None
    /\ fragment[1] # <<>>
    /\ (spacing \/ ~IsBlank(fragment[1]))

\* the reference classifier: the element's own text passes, or recursive is
\* set and a text node under the element (the text of a descendant or the
\* text that follows a descendant) passes
Classifier(d, el, spacing, recursive) ==
    \/ Present(d.text[el], spacing)
    \/ /\ recursive
       /\ \E x \in descendants(d, el) :
             Present(d.text[x], spacing) \/ Present(d.tail[x], spacing)

HasTextCalled == op.name = "has_text"

\* no text node under the element holds a character
NothingUnder(d, el) ==
    \A x \in descendants(d, el) :
        d.text[x] \in {None, Some(<<>>)} /\ d.tail[x] \in {None, Some(<<>>)}

\* C12: has_text(element, spacing, recursive) is the reference classifier; it
\* is False with spacing=False and True with spacing=True for an element whose
\* only text is three spaces, and False for an element with no text and no
\* text under it.
C12_HasTextIsClassifier ==
    HasTextCalled =>
        /\ ret.val = Classifier(doc, op.el, op.spacing, op.recursive)
        /\ (text[op.el] = Some(ThreeSpaces) /\ NothingUnder(doc, op.el))
              => ret.val = op.spacing
        /\ (text[op.el] = None /\ NothingUnder(doc, op.el)) => ret.val = FALSE

\* C12 (the case happening): an element of three spaces with a child, asked
\* with spacing and without
C12_Witness ==
    /\ HasTextCalled
    /\ text[op.el] = Some(ThreeSpaces)
    /\ children(doc, op.el) # <<>>
    /\ NothingUnder(doc, op.el)
    /\ op.spacing /\ op.recursive
    /\ ret.val = TRUE

\* an element with no own text that has text through a descendant's tail
C12_WitnessTail ==
    /\ HasTextCalled
    /\ text[op.el] = None
    /\ \A x \in descendants(doc, op.el) : ~Present(text[x], TRUE)
    /\ op.recursive /\ ~op.spacing
    /\ ret.val = TRUE

-----------------------------------------------------------------------------
(* SpecUsed: used_elements and used_element on lists of elements of a tree  *)

MaxUsedNodes == 3

\* elements with no text, blank text or text, or with text after them
UsedKinds ==
    {<<tspan, None, x, None>> : x \in {None, Some(<<" ">>), Some(<<"B">>)}}
        \cup {<<tspan, None, None, Some(<<"T">>)>>}

InitUsed == InitDoc(MaxUsedNodes, UsedKinds, UsedKinds) /\ InitNav

\* the lists of distinct elements of a set, in every order
RECURSIVE ListsOf(_)
ListsOf(S) ==
    {<<>>} \cup UNION {{<<x>> \o rest : rest \in ListsOf(S \ {x})} : x \in S}

\* used_elements on a list, and on its own result
UsedElementsCall ==
    /\ op.name = "init"
    /\ \E elements \in ListsOf(Elements), spacing \in BOOLEAN :
          LET used == used_elements(doc, elements, spacing)
          IN  /\ op' = [name |-> "used_elements", elements |-> elements,
                        spacing |-> spacing,
                        again |-> used_elements(doc, used, spacing)]
              /\ ret' = Return(used)
              /\ UNCHANGED <<docvars, assigned, log, lxml, groupvars, idvars>>

UsedElementCall ==
    /\ op.name = "init"
    /\ \E elements \in ListsOf(Elements), spacing \in BOOLEAN,
          get_any_if_one \in BOOLEAN :
          /\ op' = [name |-> "used_element", elements |-> elements,
                    spacing |-> spacing, get_any_if_one |-> get_any_if_one]
          /\ ret' = used_element(doc, elements, spacing, get_any_if_one)
          /\ log' = used_element_warnings(doc, elements, spacing, get_any_if_one)
          /\ UNCHANGED <<docvars, assigned, lxml, groupvars, idvars>>

NextUsed == UsedElementsCall \/ UsedElementCall

SpecUsed == InitUsed /\ [][NextUsed]_vars

UsedElementsCalled == op.name = "used_elements"

UsedElementCalled == op.name = "used_element"

\* the strictly increasing maps from the positions of a list into those of
\* another: how a list sits within another, order kept
Embeddings(sub, list) ==
    {f \in [DOMAIN sub -> DOMAIN list] :
        \A i, j \in DOMAIN sub : i < j => f[i] < f[j]}

\* the element itself or something under it passes the presence test
PassesFilter(d, el, spacing) == Classifier(d, el, spacing, TRUE)

\* C13: used_elements returns the elements of the input that have text of
\* their own or under them, each as often as the input holds it and in the
\* order of the input, and nothing else.
C13_UsedElementsFilters ==
    UsedElementsCalled =>
        \E f \in Embeddings(ret.val, op.elements) :
            /\ \A i \in DOMAIN ret.val : ret.val[i] = op.elements[f[i]]
            /\ \A k \in DOMAIN op.elements :
                  PassesFilter(doc, op.elements[k], op.spacing)
                      <=> \E i \in DOMAIN ret.val : f[i] = k

\* C13 (the case happening): a list not in document order, one element kept
\* for the text under it and one dropped
C13_Witness ==
    /\ UsedElementsCalled
    /\ Len(op.elements) = 3
    /\ op.elements[1] > op.elements[2]
    /\ Len(ret.val) = 2
    /\ \E i \in DOMAIN ret.val : ~Present(text[ret.val[i]], TRUE)

\* C14: used_elements applied to its own result returns that result.
C14_UsedElementsIdempotent ==
    UsedElementsCalled => op.again = ret.val

\* C14 (the case happening): a call that dropped two elements and kept one
C14_Witness ==
    /\ UsedElementsCalled
    /\ Len(op.elements) = 3
    /\ Len(ret.val) = 1
    /\ op.again = ret.val

\* no element of the list passes the presence filter
NonePasses ==
    \A k \in DOMAIN op.elements : ~PassesFilter(doc, op.elements[k], op.spacing)

\* C15: when the list is not empty and none of its elements passes the
\* presence filter, used_element returns the first element of the list if
\* get_any_if_one is set and None if it is not.
C15_AllBlankFallback ==
    (UsedElementCalled /\ op.elements # <<>> /\ NonePasses) =>
        ret = Return(IF op.get_any_if_one THEN op.elements[1] ELSE NoElement)

\* C15 (the case happening): three blank elements and the fallback
C15_Witness ==
    /\ UsedElementCalled
    /\ Len(op.elements) = 3
    /\ NonePasses
    /\ op.get_any_if_one
    /\ ret = Return(op.elements[1])

\* the positions of the list whose element passes the presence filter
Passing ==
    {k \in DOMAIN op.elements : PassesFilter(doc, op.elements[k], op.spacing)}

\* C16: when at least one element of the list passes the presence filter,
\* used_element returns the first that does, in the order of the list; it
\* raises nothing, and warns when several pass.
C16_FirstWithText ==
    (UsedElementCalled /\ Passing # {}) =>
        /\ \E k \in Passing :
              /\ \A j \in Passing : k <= j
              /\ ret = Return(op.elements[k])
        /\ Cardinality(Passing) > 1 => log # <<>>

\* C16 (the case happening): [blank, "B", blank] gives the element of "B"
C16_Witness ==
    /\ UsedElementCalled
    /\ Len(op.elements) = 3
    /\ Passing = {2}
    /\ ret = Return(op.elements[2])

\* several elements pass
C16_WitnessSeveral ==
    /\ UsedElementCalled
    /\ Cardinality(Passing) = 2
    /\ 1 \notin Passing
    /\ log # <<>>
    /\ ret = Return(op.elements[2])

-----------------------------------------------------------------------------
(* SpecLookup: getElementById and getLeafById on an SVG document *)

MaxLookupNodes == 4

\* the name of a document, as tests pass it for assert_id_in
DocName == <<"d", ".", "s", "v", "g">>

InitLookup ==
    /\ InitDoc(MaxLookupNodes, FieldRootKinds, FieldKinds)
    /\ IsSVG(doc)
    /\ InitCall
    /\ lxml \in BOOLEAN

ElementByIdCall ==
    /\ op.name = "init"
    /\ \E id \in FieldIds, skip_empty \in BOOLEAN,
          assert_id_in \in {None, Some(DocName)} :
          /\ op' = [name |-> "getElementById", id |-> id,
                    skip_empty |-> skip_empty, assert_id_in |-> assert_id_in]
          /\ ret' = getElementById(doc, id, skip_empty, assert_id_in)
          /\ UNCHANGED <<docvars, assigned, log, lxml, groupvars, idvars>>

LeafByIdCall ==
    /\ op.name = "init"
    /\ \E id \in FieldIds, skip_empty \in BOOLEAN, spacing \in BOOLEAN,
          assert_id_in \in {None, Some(DocName)} :
          /\ op' = [name |-> "getLeafById", tag |-> tspan, id |-> id,
                    skip_empty |-> skip_empty, spacing |-> spacing,
                    assert_id_in |-> assert_id_in]
          /\ ret' = getLeafById(doc, tspan, id, skip_empty, spacing, assert_id_in)
          /\ UNCHANGED <<docvars, assigned, log, lxml, groupvars, idvars>>

LeavesByIdCall ==
    /\ op.name = "init"
    /\ \E id \in FieldIds, t \in {<<"t", "e", "x", "t">>, <<"g">>},
          skip_empty \in BOOLEAN, spacing \in BOOLEAN :
          LET found == getLeavesById(doc, id, t, tspan, skip_empty, spacing, lxml)
          IN  /\ op' = [name |-> "getLeavesById", id |-> id, tag |-> t,
                        leaf_tag |-> tspan, skip_empty |-> skip_empty,
                        spacing |-> spacing]
              /\ ret' = Return(found.val)
              /\ log' = found.log
              /\ UNCHANGED <<docvars, assigned, lxml, groupvars, idvars>>

NextLookup == ElementByIdCall \/ LeafByIdCall \/ LeavesByIdCall

SpecLookup == InitLookup /\ [][NextLookup]_vars

ElementByIdCalled == op.name = "getElementById"

LeafByIdCalled == op.name = "getLeafById"

\* the elements that carry the id, the root included
Carrying(d, id) == {n \in DOMAIN d.parent : d.ident[n] = Some(id)}

\* the elements of a list as a set
Range(list) == {list[i] : i \in DOMAIN list}

\* the children of el are tspan elements with no child, at least one with
\* no text or blank text and at least one with text
HasTspanSiblings(d, el) ==
    LET kids == Range(children(d, el))
    IN  /\ \A c \in kids : d.tag[c] = svg(tspan) /\ children(d, c) = <<>>
        /\ \E c \in kids : ~Present(d.text[c], FALSE)
        /\ \E c \in kids : Present(d.text[c], FALSE)

\* the first child of el whose own text is not blank, NoElement if none
FirstWithOwnText(d, el) ==
    LET withText == {c \in Range(children(d, el)) : Present(d.text[c], FALSE)}
    IN  IF withText = {} THEN NoElement
        ELSE CHOOSE c \in withText : \A x \in withText : c <= x

\* C17: when the one element carrying the id has tspan children, some empty
\* and some with text, getLeafById("tspan", id, skip_empty=True) returns the
\* first child whose own text is not blank, and with skip_empty=False it
\* returns the first child, empty or not.
C17_SiblingTspans ==
    (LeafByIdCalled /\ ~op.spacing) =>
        \A el \in Carrying(doc, op.id) :
            (Carrying(doc, op.id) = {el} /\ HasTspanSiblings(doc, el)) =>
                ret = Return(IF op.skip_empty THEN FirstWithOwnText(doc, el)
                             ELSE children(doc, el)[1])

\* C17 (the case happening): <text id><tspan/><tspan>B</tspan></text> with
\* skip_empty=True
C17_Witness ==
    /\ LeafByIdCalled /\ op.skip_empty /\ ~op.spacing
    /\ \E el \in Carrying(doc, op.id) :
          /\ Carrying(doc, op.id) = {el}
          /\ HasTspanSiblings(doc, el)
          /\ Len(children(doc, el)) = 2
          /\ text[children(doc, el)[1]] = None
          /\ ret = Return(children(doc, el)[2])

\* the same document with skip_empty=False
C17_WitnessFirst ==
    /\ LeafByIdCalled /\ ~op.skip_empty /\ ~op.spacing
    /\ \E el \in Carrying(doc, op.id) :
          /\ Carrying(doc, op.id) = {el}
          /\ HasTspanSiblings(doc, el)
          /\ text[children(doc, el)[1]] = None
          /\ ret = Return(children(doc, el)[1])

\* the identifier-not-found error
IdNotFound == ret.exc = "AssertionError"

\* C18: with assert_id_in set, getElementById and getLeafById raise the
\* identifier-not-found error exactly when no element carries the id; with no
\* assert_id_in a missing id gives None.
C18_StrictMode ==
    (ElementByIdCalled \/ LeafByIdCalled) =>
        /\ truthy(op.assert_id_in) => (IdNotFound <=> query_id(doc, op.id) = <<>>)
        /\ (~truthy(op.assert_id_in) /\ query_id(doc, op.id) = <<>>)
              => ret = Return(NoElement)

\* the part of C18 that is about getElementById
C18_StrictElementById == ElementByIdCalled => C18_StrictMode

\* C19: when one element carries the id, getLeafById(tag, id, skip_empty,
\* spacing) returns what get_leaf returns for that element with the same
\* tag, skip_empty and spacing.
C19_PassThrough ==
    (LeafByIdCalled /\ ~truthy(op.assert_id_in) /\ Len(query_id(doc, op.id)) = 1) =>
        ret = get_leaf(doc, Element(query_id(doc, op.id)[1]), op.tag,
                       op.skip_empty, op.spacing)

\* the part of C19 that holds: an element resolved with the same skip_empty
C19_PassThroughResolved ==
    LeafByIdCalled =>
        LET el == getElementById(doc, op.id, op.skip_empty, None)
        IN  el.val # NoElement =>
                ret = get_leaf(doc, Element(el.val), op.tag, op.skip_empty,
                               op.spacing)

-----------------------------------------------------------------------------
(* SpecRead: getField on an SVG document that may hold elements of the      *)
(* inkscape namespace                                                       *)

MaxReadNodes == 4

ReadKinds ==
    FieldKinds \cup {<<qualified(INKSCAPE_NS, <<"x">>), None, None, None>>}

InitRead ==
    /\ InitDoc(MaxReadNodes, FieldRootKinds, ReadKinds)
    /\ IsSVG(doc)
    /\ InitCall
    /\ lxml \in BOOLEAN

\* getField changes nothing, so one call per document shows all it does
ReadCall ==
    /\ op.name = "init"
    /\ \E id \in FieldIds : Call_getField(id)

NextRead == ReadCall

SpecRead == InitRead /\ [][NextRead]_vars

GetCalled == op.name = "getField"

\* no element at or under el is a tspan
NoTspan(d, el) == \A n \in subtree(d, el) : ~TagMatches(d, n, tspan)

\* C20: getField(id) returns the text of the leaf that get_leaf resolves under
\* the first element carrying the id (tag tspan, skip_empty=False); it returns
\* None and raises nothing when no element carries the id or when no tspan
\* exists at or under that element.
C20_GetField ==
    GetCalled =>
        LET elems == query_id(doc, op.id)
        IN  IF elems = <<>> THEN Returned(ret, None)
            ELSE LET leaf == get_leaf(doc, Element(elems[1]), tspan, FALSE, FALSE)
                 IN  /\ NoTspan(doc, elems[1]) => Returned(ret, None)
                     /\ (leaf.exc = "none" /\ leaf.val # NoElement)
                           => Returned(ret, text[leaf.val])

\* apart from elements of another namespace (see C8), C20 holds
C20_WithinSVGNamespace == NoOtherNamespace(doc) => C20_GetField

-----------------------------------------------------------------------------
(* SpecCore: any sequence of calls of the core on one SVG document *)

MaxCoreNodes == 4

\* g and text elements with or without the id, tspan elements with or
\* without text
CoreKinds ==
    {<<t, i, None, None>> :
        t \in {svg(<<"g">>), svg(<<"t", "e", "x", "t">>)},
        i \in {None} \cup {Some(f) : f \in FieldIds}}
        \cup {<<svg(tspan), None, x, None>> : x \in {None, Some(<<"B">>)}}

InitCore ==
    /\ InitDoc(MaxCoreNodes, FieldRootKinds, CoreKinds)
    /\ IsSVG(doc)
    /\ InitCall
    /\ lxml \in BOOLEAN

\* a call that reads: only what was called and what it gave is recorded.
\* The flags that make no difference to what a call may change are fixed.
Read(name, result) ==
    /\ op' = [name |-> name]
    /\ ret' = result
    /\ assigned' = <<>>
    /\ log' = <<>>
    /\ UNCHANGED <<docvars, lxml, groupvars, idvars>>

CoreHasText ==
    \E n \in Elements :
        Read("has_text", Return(has_text(doc, n, FALSE, TRUE)))

CoreUsedElements ==
    \E n \in Elements :
        Read("used_elements", Return(used_elements(doc, children(doc, n), FALSE)))

CoreUsedElement ==
    \E n \in Elements :
        Read("used_element", used_element(doc, children(doc, n), FALSE, FALSE))

CoreGetLeaf ==
    \E n \in Elements, skip_empty \in BOOLEAN :
        Read("get_leaf", get_leaf(doc, Element(n), tspan, skip_empty, FALSE))

CoreGetLeafById ==
    \E id \in FieldIds, skip_empty \in BOOLEAN :
        Read("getLeafById", getLeafById(doc, tspan, id, skip_empty, FALSE, None))

CoreGetField == \E id \in FieldIds : Read("getField", getField(doc, id))

CoreSetField ==
    \E id \in FieldIds, value \in FieldValues,
       skip_empty \in BOOLEAN, spacing \in BOOLEAN :
        LET r == setField(doc, id, value, skip_empty, spacing, lxml)
        IN  /\ op' = [name |-> "setField", id |-> id]
            /\ ret' = r.ret
            /\ text' = r.text
            /\ assigned' = r.assigned
            /\ log' = r.log
            /\ UNCHANGED <<parent, tag, ident, tail, label, groupmode, lxml, groupvars,
                     idvars>>

NextCore ==
    \/ CoreHasText
    \/ CoreUsedElements
    \/ CoreUsedElement
    \/ CoreGetLeaf
    \/ CoreGetLeafById
    \/ CoreGetField
    \/ CoreSetField

SpecCore == InitCore /\ [][NextCore]_vars

\* the tspan elements at or under an element that carries the id
FieldTspans(d, id) ==
    {n \in DOMAIN d.parent :
        /\ d.tag[n] = svg(tspan)
        /\ \E a \in {n} \cup ancestors(d.parent, n) : d.ident[a] = Some(id)}

\* C21: no call changes the set of elements, their tags, attributes or
\* parent/child order; a call other than setField changes no text, and
\* setField(id, ...) changes the text of tspan elements at or under an
\* element carrying the id only.
C21_Frame ==
    [][/\ parent' = parent /\ tag' = tag /\ ident' = ident /\ tail' = tail
       /\ label' = label /\ groupmode' = groupmode
       /\ DOMAIN text' = DOMAIN text
       /\ op'.name # "setField" => text' = text
       /\ op'.name = "setField" =>
             \A n \in DOMAIN text :
                 text'[n] # text[n] => n \in FieldTspans(doc, op'.id)]_vars

\* C21 (the case happening): setField has written the tspan of the id and a
\* read has followed it
C21_Witness ==
    /\ op.name = "getField"
    /\ \E n \in FieldTspans(doc, "f") : text[n] = Some(str(Int_(17)))
    /\ Returned(ret, Some(str(Int_(17))))

-----------------------------------------------------------------------------
(* SpecIds: threads calling next() on one IDGenerator, a statement at a time *)

MaxCalls == 3

\* the id_hook of the generator: none (as for the process-wide generator of
\* new_id), or a check that rejects the ids of a set
IdHooks == {None} \cup {Some(S) : S \in SUBSET {1, 2}}

InitIds ==
    /\ InitDoc(1, FieldRootKinds, FieldRootKinds)
    /\ InitOp
    /\ InitGroupMap
    /\ lxml = TRUE
    /\ \E hook \in IdHooks : IDGenerator(1, hook)

\* a plausible slip: no lock, every thread walks in
lock_free_always(l) == TRUE

\* Lock.acquire returns once no thread holds the lock
lock_free(l) == l = NoThread

\* `with self.__lock:`, entered
Acquire(t) ==
    /\ pc[t] = "idle"
    /\ Len(calls) < MaxCalls
    /\ lock_free(lock)
    /\ lock' = t
    /\ pc' = [pc EXCEPT ![t] = "read"]
    /\ calls' = Append(calls, [thread |-> t, id |-> 0])
    /\ UNCHANGED <<id_seed, id_check_hook, valid_id>>

\* `valid_id = self.__id_seed`
ReadSeed(t) ==
    /\ pc[t] = "read"
    /\ valid_id' = [valid_id EXCEPT ![t] = id_seed]
    /\ pc' = [pc EXCEPT ![t] = "increment"]
    /\ UNCHANGED <<id_seed, id_check_hook, lock, calls>>

\* `self.__id_seed += 1`
Increment(t) ==
    /\ pc[t] = "increment"
    /\ id_seed' = id_seed + 1
    /\ pc' = [pc EXCEPT ![t] = "check"]
    /\ UNCHANGED <<id_check_hook, lock, valid_id, calls>>

\* `if self.__id_check_hook is None or not self.__id_check_hook(valid_id):
\* break`, otherwise once more round the loop
CheckHook(t) ==
    /\ pc[t] = "check"
    /\ pc' = [pc EXCEPT ![t] =
                IF id_check_hook = None \/ valid_id[t] \notin id_check_hook[1]
                THEN "return" ELSE "read"]
    /\ UNCHANGED <<id_seed, id_check_hook, lock, valid_id, calls>>

\* the position in calls of the call thread t is in
Pending(t) ==
    CHOOSE i \in DOMAIN calls :
        /\ calls[i].thread = t
        /\ \A j \in DOMAIN calls : calls[j].thread = t => j <= i

\* `return valid_id`, leaving the with block: the lock is released
ReturnId(t) ==
    /\ pc[t] = "return"
    /\ lock' = NoThread
    /\ pc' = [pc EXCEPT ![t] = "idle"]
    /\ calls' = [calls EXCEPT ![Pending(t)].id = valid_id[t]]
    /\ UNCHANGED <<id_seed, id_check_hook, valid_id>>

\* one statement of one thread
Step(t) ==
    /\ \/ Acquire(t)
       \/ ReadSeed(t)
       \/ Increment(t)
       \/ CheckHook(t)
       \/ ReturnId(t)
    /\ UNCHANGED <<docvars, op, ret, assigned, log, lxml, groupvars>>

NextIds == \E t \in Threads : Step(t)

SpecIds == InitIds /\ [][NextIds]_vars

\* the calls that have returned, in order of lock acquisition
Handed == SelectSeq(calls, LAMBDA c : c.id # 0)

\* C22: whatever the interleaving of the threads, no two calls of next()
\* return the same id, and the ids returned increase strictly in the order in
\* which the calls acquired the lock.
C22_UniqueIncreasingIds ==
    \A i, j \in DOMAIN Handed : i < j => Handed[i].id < Handed[j].id

\* C22 (the case happening): three calls made by more than one thread have
\* all returned
C22_Witness ==
    /\ Len(Handed) = 3
    /\ Handed[1].thread # Handed[2].thread
    /\ \E t \in Threads : pc[t] = "idle"
    /\ \A i \in DOMAIN calls : calls[i].id # 0

-----------------------------------------------------------------------------
(* more about get_leaf on the root of a tree (SpecLeaf) *)

\* the tag-matching elements of the subtree
Matches(d, el, t) == {n \in subtree(d, el) : TagMatches(d, n, t)}

\* C23: with skip_empty=False, get_leaf returns an element whenever an
\* element of the subtree matches the tag, a textless one if no match has
\* text; it returns None only when nothing matches.
C23_EmptyMatchFallback ==
    (LeafCalled /\ ~op.skip_empty /\ Matches(doc, op.el.node, op.tag) # {})
        => Found

\* apart from elements of another namespace (see C8), C23 holds
C23_WithinSVGNamespace == NoOtherNamespace(doc) => C23_EmptyMatchFallback

\* C24: with skip_empty=True, get_leaf returns None when no tag-matching
\* element of the subtree has own text, and an element it returns has own
\* text that is not empty (spacing=True) or not blank (spacing=False).
C24_SkipEmpty ==
    (LeafCalled /\ op.skip_empty) =>
        /\ WithOwnText(doc, op.el.node, op.tag, op.spacing) = {}
              => ret = Return(NoElement)
        /\ Found => ret.val \in WithOwnText(doc, op.el.node, op.tag, op.spacing)

\* apart from elements of another namespace (see C8), C24 holds
C24_WithinSVGNamespace == NoOtherNamespace(doc) => C24_SkipEmpty

\* what each policy takes for a candidate: a tag match with skip_empty=False,
\* a tag match with own text, blank text counting if spacing, otherwise
PolicyCandidates(d, el, t, skip_empty, spacing) ==
    IF skip_empty THEN WithOwnText(d, el, t, spacing) ELSE Matches(d, el, t)

\* no element of S is above another
Unrelated(d, S) == \A x, y \in S : x \notin ancestors(d.parent, y)

\* C25: when several candidates exist and none is an ancestor of another,
\* get_leaf returns the one that comes first in document order, under each of
\* the three policies.
C25_FirstInDocumentOrder ==
    LeafCalled =>
        LET cands == PolicyCandidates(doc, op.el.node, op.tag, op.skip_empty,
                                      op.spacing)
        IN  (Cardinality(cands) >= 2 /\ Unrelated(doc, cands)) =>
                \E c \in cands : (\A x \in cands : c <= x) /\ ret = Return(c)

\* apart from elements of another namespace (see C8), C25 holds
C25_WithinSVGNamespace == NoOtherNamespace(doc) => C25_FirstInDocumentOrder

-----------------------------------------------------------------------------
(* getLeavesById (SpecLookup) *)

LeavesByIdCalled == op.name = "getLeavesById"

\* the leaf_tag elements that are children of a tag element under the root
\* carrying the id
DirectLeaves(d, id, t, leaf_tag) ==
    {n \in DOMAIN d.parent :
        /\ d.tag[n] = svg(leaf_tag)
        /\ d.parent[n] > 1
        /\ d.tag[d.parent[n]] = svg(t)
        /\ d.ident[d.parent[n]] = Some(id)}

\* the leaf_tag elements under a g element under the root carrying the id
LeavesUnderG(d, id, leaf_tag) ==
    {n \in DOMAIN d.parent :
        /\ d.tag[n] = svg(leaf_tag)
        /\ \E a \in ancestors(d.parent, n) :
              a > 1 /\ d.tag[a] = svg(<<"g">>) /\ d.ident[a] = Some(id)}

\* what skip_empty leaves of a set of elements
Kept(d, S, skip_empty, spacing) ==
    IF skip_empty THEN {n \in S : PassesFilter(d, n, spacing)} ELSE S

C26_WitnessDescent ==
    /\ LeavesByIdCalled
    /\ DirectLeaves(doc, op.id, op.tag, op.leaf_tag) = {}
    /\ LeavesUnderG(doc, op.id, op.leaf_tag) # {}
    /\ op.skip_empty
    /\ ret.val = Some(<<>>)
    /\ log # <<>>

-----------------------------------------------------------------------------
(* pyinkscape/inkscape.py: class Canvas, groups and layers.  A Group object *)
(* is denoted by its number, in order of construction; made[g] is the       *)
(* element it was constructed for (Group.elem).                             *)

\* the Group returned where None is
NoGroup == 0

\* the cache and the objects made so far, as operators hand them on
cache == [map |-> elem_group_map, made |-> made]

\* a plausible slip: the cache is not looked at, a Group is made each time
build_group_afresh(c, elem) ==
    [map |-> (elem :> (Len(c.made) + 1)) @@ c.map,
     made |-> Append(c.made, elem),
     group |-> Len(c.made) + 1]

\* Canvas.__build_group: the Group of the element, made if there is none
build_group(c, elem) ==
    IF elem \notin DOMAIN c.map
    THEN [map |-> (elem :> (Len(c.made) + 1)) @@ c.map,
          made |-> Append(c.made, elem),
          group |-> Len(c.made) + 1]
    ELSE [map |-> c.map, made |-> c.made, group |-> c.map[elem]]

\* _xpath_query(".//ns:g..."): the g elements under the root, layers only if
\* asked, with the label or the id if one is given (None for any)
query_groups(layer_only, with_label, with_id) ==
    inorder({n \in Elements :
                /\ n # 1
                /\ tag[n] = svg(<<"g">>)
                /\ layer_only => groupmode[n] = Some("layer")
                /\ with_label # None => label[n] = with_label
                /\ with_id # None => ident[n] = with_id})

\* `[self.__build_group(g) for g in groups]`: the cache afterwards and the
\* Groups in order
RECURSIVE build_groups(_, _, _)
build_groups(c, elems, i) ==
    IF i > Len(elems) THEN [map |-> c.map, made |-> c.made, groups |-> <<>>]
    ELSE LET first == build_group(c, elems[i])
             rest == build_groups(first, elems, i + 1)
         IN  [map |-> rest.map, made |-> rest.made,
              groups |-> <<first.group>> \o rest.groups]

groups(c, layer_only) ==
    build_groups(c, query_groups(layer_only, None, None), 1)

group_by_id(c, id, layer_only) ==
    LET found == query_groups(layer_only, None, Some(id))
    IN  IF found # <<>> THEN build_group(c, found[1])
        ELSE [map |-> c.map, made |-> c.made, group |-> NoGroup]

\* Group.label of a Group: the label of its element when it was made
group_label(c, g) == label[c.made[g]]

group(c, name, layer_only) ==
    LET found == query_groups(layer_only, Some(name), None)
    IN  IF found # <<>> THEN build_group(c, found[1])
        ELSE LET try_group == group_by_id(c, name, layer_only)
             IN  IF /\ try_group.group # NoGroup
                    /\ group_label(try_group, try_group.group) \in {None, Some("")}
                 THEN try_group
                 ELSE [map |-> try_group.map, made |-> try_group.made,
                       group |-> NoGroup]

layers(c) == groups(c, TRUE)

layer(c, name) == group(c, name, TRUE)

layer_by_id(c, id) == group_by_id(c, id, TRUE)

-----------------------------------------------------------------------------
(* SpecGroups: any sequence of group and layer lookups on one Canvas *)

MaxGroupNodes == 3

\* the g elements of a document: <<id, label, groupmode>>
GroupKinds ==
    {<<None, None, None>>,
     <<Some("a"), None, None>>,
     <<None, Some("L"), None>>,
     <<Some("a"), None, Some("layer")>>,
     <<Some("a"), Some("L"), Some("layer")>>}

GroupNames == {"a", "L"}

InitGroups ==
    /\ \E n \in 1..MaxGroupNodes :
          /\ parent \in {par \in [1..n -> 0..(n - 1)] : IsPreorder(par)}
          /\ \E k \in [2..n -> GroupKinds] :
                /\ tag = [e \in 1..n |-> IF e = 1 THEN svg(<<"s", "v", "g">>)
                                         ELSE svg(<<"g">>)]
                /\ ident = [e \in 1..n |-> IF e = 1 THEN None ELSE k[e][1]]
                /\ label = [e \in 1..n |-> IF e = 1 THEN None ELSE k[e][2]]
                /\ groupmode = [e \in 1..n |-> IF e = 1 THEN None ELSE k[e][3]]
          /\ text = [e \in 1..n |-> None]
          /\ tail = [e \in 1..n |-> None]
    /\ InitCall
    /\ lxml \in BOOLEAN

\* a call that returned one Group or None
GaveGroup(name, r) ==
    /\ op' = [name |-> name]
    /\ ret' = Return(r.group)
    /\ elem_group_map' = r.map
    /\ made' = r.made
    /\ given' = given \cup (IF r.group = NoGroup THEN {}
                            ELSE {<<r.made[r.group], r.group>>})
    /\ UNCHANGED <<docvars, assigned, log, lxml, idvars>>

\* a call that returned a list of Groups
GaveGroups(name, r) ==
    /\ op' = [name |-> name]
    /\ ret' = Return(r.groups)
    /\ elem_group_map' = r.map
    /\ made' = r.made
    /\ given' = given \cup {<<r.made[r.groups[i]], r.groups[i]>> :
                               i \in DOMAIN r.groups}
    /\ UNCHANGED <<docvars, assigned, log, lxml, idvars>>

GroupsCall == \E layer_only \in BOOLEAN : GaveGroups("groups", groups(cache, layer_only))

GroupCall ==
    \E name \in GroupNames, layer_only \in BOOLEAN :
        GaveGroup("group", group(cache, name, layer_only))

GroupByIdCall ==
    \E id \in GroupNames, layer_only \in BOOLEAN :
        GaveGroup("group_by_id", group_by_id(cache, id, layer_only))

LayersCall == GaveGroups("layers", layers(cache))

LayerCall == \E name \in GroupNames : GaveGroup("layer", layer(cache, name))

LayerByIdCall == \E id \in GroupNames : GaveGroup("layer_by_id", layer_by_id(cache, id))

NextGroups ==
    \/ GroupsCall
    \/ GroupCall
    \/ GroupByIdCall
    \/ LayersCall
    \/ LayerCall
    \/ LayerByIdCall

SpecGroups == InitGroups /\ [][NextGroups]_vars

\* C27: whatever group and layer lookups have been made on a Canvas, two
\* calls that resolved the same element returned the same Group object, and
\* no element has had more than one Group made for it.
C27_OneGroupPerElement ==
    /\ \A p, q \in given : p[1] = q[1] => p[2] = q[2]
    /\ \A i, j \in DOMAIN made : made[i] = made[j] => i = j

\* C27 (the case happening): layer_by_id returns, for a layer labelled L, the
\* Group an earlier call made for it, a second Group having been made since
C27_Witness ==
    /\ op.name = "layer_by_id"
    /\ ret.val # NoGroup
    /\ label[made[ret.val]] = Some("L")
    /\ Cardinality(given) = 2
    /\ Len(made) = 2
    /\ ret.val = 1

-----------------------------------------------------------------------------
(* more about get_leaf on any element of a tree (SpecTags) *)

\* C28: an element get_leaf returns is the element passed in or one under
\* it, and its tag, the namespace stripped, equals the tag asked for whatever
\* the letter case; what is returned is one element or None, never a list.
C28_ResultWithinSubtree ==
    (LeafCalled /\ Found) =>
        /\ ret.val \in subtree(doc, op.el.node)
        /\ TagMatches(doc, ret.val, op.tag)
        /\ ret.val \in Elements

\* C28 (the case happening): called on an element that is not the root of the
\* tree and has an element of the tag above it, it returns an element under
\* the one passed in
C28_Witness ==
    /\ LeafCalled /\ Found
    /\ op.el.node = 2
    /\ ret.val = 3
    /\ parent[3] = 2
    /\ TagMatches(doc, 1, op.tag)
    /\ tag[3] = qualified(SVG_NS, tspan)
    /\ op.tag = TSPAN

-----------------------------------------------------------------------------
(* the exact result of get_leaf (SpecLeaf) *)

\* n, the first child of n, the first child of that child, and so on
RECURSIVE FirstChildChain(_, _)
FirstChildChain(d, n) ==
    {n} \cup (IF children(d, n) = <<>> THEN {}
              ELSE FirstChildChain(d, children(d, n)[1]))

\* the deepest candidate on the first-child chain of the first candidate in
\* pre-order, NoElement if there is no candidate
DeepestOnChain(d, el, t, skip_empty, spacing) ==
    LET cands == {n \in subtree(d, el) : CandidateMatch(d, n, t, skip_empty, spacing)}
    IN  IF cands = {} THEN NoElement
        ELSE LET N == CHOOSE n \in cands : \A x \in cands : n <= x
                 onChain == FirstChildChain(d, N) \cap cands
             IN  CHOOSE n \in onChain : \A x \in onChain : x <= n

\* C29: get_leaf returns the deepest candidate on the chain N, first child of
\* N, first child of that child and so on, N being the first candidate match
\* in pre-order; it returns None if there is no candidate.
C29_ExactResult ==
    LeafCalled =>
        ret = Return(DeepestOnChain(doc, op.el.node, op.tag, op.skip_empty,
                                    op.spacing))

\* apart from elements of another namespace (see C8), C29 holds
C29_WithinSVGNamespace == NoOtherNamespace(doc) => C29_ExactResult

\* used_element on an empty list (SpecUsed)

\* C30: used_element given an empty list returns None and raises nothing,
\* whether get_any_if_one is set or not.
C30_EmptyListGivesNone ==
    (UsedElementCalled /\ op.elements = <<>>) => ret = Return(NoElement)

\* the part of C30 that holds: get_any_if_one not set
C30_WithoutFallback ==
    (UsedElementCalled /\ op.elements = <<>> /\ ~op.get_any_if_one)
        => ret = Return(NoElement)

=============================================================================
